---- MODULE Spec2Model ----
(***************************************************************************)
(* Student Management Dashboard (src/src/App.js).                          *)
(*                                                                         *)
(* The model covers the context store (students, courses, loading, error), *)
(* the dashboard state (showForm, editingStudent, searchTerm), the mounted *)
(* StudentForm (formData, errors, isSubmitting), the startup course fetch  *)
(* and the two timer-driven delays of a save (800 ms in handleSubmit,      *)
(* 500 ms in StudentAPI.addStudent / updateStudent).                       *)
(*                                                                         *)
(* JavaScript strings are sequences of one-character strings, so that      *)
(* trim, toLowerCase, includes and the e-mail regular expression are       *)
(* computed, not assumed.                                                  *)
(***************************************************************************)
EXTENDS Integers, Sequences, FiniteSets, TLC

VARIABLES
    students,        \* StudentProvider: useState([])
    courses,         \* StudentProvider: useState([])
    loading,         \* StudentProvider: useState(false)
    error,           \* StudentProvider: useState(null); <<>> is null, <<msg>> a message
    showForm,        \* Dashboard: useState(false)
    editingStudent,  \* Dashboard: useState(null); <<>> is null, <<s>> a student
    searchTerm,      \* Dashboard: useState('')
    formData,        \* StudentForm: useState({name, email, course, profileImage})
    errors,          \* StudentForm: useState({}); a function field -> message
    isSubmitting,    \* StudentForm: useState(false)
    formId,          \* identity of the mounted StudentForm instance, 0 when none
    fetchState,      \* "idle" (before the mount effect), "pending", "done"
    response,        \* what the HTTP request of fetchCourses will answer
    timers,          \* pending setTimeout continuations, in creation order
    now,             \* Date.now(), in ms since the page was loaded
    nsubmits,        \* number of submits that passed validation so far
    cancelled        \* history: cancelled form instances with a save still in flight

vars == <<students, courses, loading, error, showForm, editingStudent, searchTerm,
          formData, errors, isSubmitting, formId, fetchState, response, timers,
          now, nsubmits, cancelled>>

-----------------------------------------------------------------------------
(* Bounds of the model *)

\* valid submits per behaviour (each creates one 800 ms and one 500 ms timer)
MaxSubmits == 2
\* valid submits per behaviour of a user who types valid values only
MaxTimedSubmits == 4
\* length of the e-mail candidates validateStudent is checked on
MaxLen == 5
\* number of items in a fetched course array
MaxItems == 2

\* the students of a roster the search is checked on
MaxRoster == 3

-----------------------------------------------------------------------------
(* Strings *)

Whitespace == {" ", "\t", "\n"}

UpperChars == <<"A", "B", "C", "D", "E", "F", "G", "H", "I", "J", "K", "L", "M",
                "N", "O", "P", "Q", "R", "S", "T", "U", "V", "W", "X", "Y", "Z">>
LowerChars == <<"a", "b", "c", "d", "e", "f", "g", "h", "i", "j", "k", "l", "m",
                "n", "o", "p", "q", "r", "s", "t", "u", "v", "w", "x", "y", "z">>

\* String.prototype.toLowerCase, one character
LowerChar(c) ==
    IF \E i \in DOMAIN UpperChars : UpperChars[i] = c
    THEN LowerChars[CHOOSE i \in DOMAIN UpperChars : UpperChars[i] = c]
    ELSE c

\* String.prototype.toLowerCase
toLowerCase(s) == [i \in DOMAIN s |-> LowerChar(s[i])]

\* String.prototype.includes
includes(s, t) ==
    \E k \in 0 .. (Len(s) - Len(t)) :
        \A i \in 1 .. Len(t) : s[k + i] = t[i]

\* String.prototype.trim: drop the leading and the trailing whitespace
RECURSIVE TrimLeft(_)
TrimLeft(s) ==
    IF s # <<>> /\ Head(s) \in Whitespace THEN TrimLeft(Tail(s)) ELSE s

RECURSIVE TrimRight(_)
TrimRight(s) ==
    IF s # <<>> /\ s[Len(s)] \in Whitespace
    THEN TrimRight(SubSeq(s, 1, Len(s) - 1))
    ELSE s

trim(s) == TrimRight(TrimLeft(s))

\* all strings over an alphabet, up to a length
RECURSIVE StringsUpTo(_, _)
StringsUpTo(alphabet, n) ==
    IF n = 0 THEN {<<>>}
    ELSE LET shorter == StringsUpTo(alphabet, n - 1)
         IN  shorter \cup {Append(s, c) : s \in shorter, c \in alphabet}

-----------------------------------------------------------------------------
(* Form validation utilities *)

\* the class [^\s@] of emailRegex
NotSpaceNotAt(c) == c \notin Whitespace /\ c # "@"

(* emailRegex = /^[^\s@]+@[^\s@]+\.[^\s@]+$/ as the automaton it denotes.
   States: 0 start, 1 in the local part, 2 after '@', 3 in the domain,
   4 after the '.', 5 in the last part (accepting). A '.' read in state 3 may
   stay in the domain or end it. *)
RegexStep(q, c) ==
    CASE q = 0 -> IF NotSpaceNotAt(c) THEN {1} ELSE {}
      [] q = 1 -> IF NotSpaceNotAt(c) THEN {1} ELSE IF c = "@" THEN {2} ELSE {}
      [] q = 2 -> IF NotSpaceNotAt(c) THEN {3} ELSE {}
      [] q = 3 -> IF c = "." THEN {3, 4} ELSE IF NotSpaceNotAt(c) THEN {3} ELSE {}
      [] q = 4 -> IF NotSpaceNotAt(c) THEN {5} ELSE {}
      [] q = 5 -> IF NotSpaceNotAt(c) THEN {5} ELSE {}

RECURSIVE RegexRun(_, _)
RegexRun(qs, s) ==
    IF s = <<>> THEN qs
    ELSE RegexRun(UNION {RegexStep(q, Head(s)) : q \in qs}, Tail(s))

\* validateEmail: emailRegex.test(email)
validateEmail(email) == 5 \in RegexRun({0}, email)

Fields == {"name", "email", "course"}

\* validateStudent, one field: <<>> when the field passes, <<message>> otherwise
FieldError(student, field) ==
    CASE field = "name" ->
            IF trim(student.name) = <<>> THEN <<"Name is required">> ELSE <<>>
      [] field = "email" ->
            IF trim(student.email) = <<>> THEN <<"Email is required">>
            ELSE IF ~validateEmail(student.email)
                 THEN <<"Please enter a valid email address">>
                 ELSE <<>>
      [] field = "course" ->
            IF student.course = <<>> THEN <<"Please select a course">> ELSE <<>>

\* a mutant of validateStudent: the rules short-circuit after the first error
validateStudentShortCircuit(student) ==
    LET bad == {f \in Fields : FieldError(student, f) # <<>>}
        first == IF "name" \in bad THEN {"name"}
                 ELSE IF "email" \in bad THEN {"email"} ELSE bad
    IN  [f \in first |-> FieldError(student, f)[1]]

\* validateStudent: the errors object, a function from the failing fields
validateStudent(student) ==
    [f \in {g \in Fields : FieldError(student, g) # <<>>} |->
        FieldError(student, f)[1]]

-----------------------------------------------------------------------------
(* JavaScript values met in the course data: undefined, null, strings, numbers *)

Undefined == [t |-> "undefined", s |-> <<>>, n |-> 0]
Null == [t |-> "null", s |-> <<>>, n |-> 0]
Str(chars) == [t |-> "string", s |-> chars, n |-> 0]
Num(k) == [t |-> "number", s |-> <<>>, n |-> k]

\* ToBoolean
Truthy(v) == (v.t = "string" /\ v.s # <<>>) \/ (v.t = "number" /\ v.n # 0)

\* a || b
Or(a, b) == IF Truthy(a) THEN a ELSE b

\* the strings of the model
sHTML == <<"H", "T", "M", "L", " ", "B", "a", "s", "i", "c", "s">>
sCSSMastery == <<"C", "S", "S", " ", "M", "a", "s", "t", "e", "r", "y">>
sJavaScript == <<"J", "a", "v", "a", "S", "c", "r", "i", "p", "t", " ", "P", "r", "o">>
sReact == <<"R", "e", "a", "c", "t", " ", "I", "n", " ", "D", "e", "p", "t", "h">>
sCSS == <<"C", "S", "S">>
sJS == <<"J", "S">>
sGo == <<"G", "o">>

\* the fallback of fetchCourses (and of the effect's catch)
FallbackCourses ==
    << [id |-> Num(1), name |-> Str(sHTML)],
       [id |-> Num(2), name |-> Str(sCSSMastery)],
       [id |-> Num(3), name |-> Str(sJavaScript)],
       [id |-> Num(4), name |-> Str(sReact)] >>

(* What the endpoint answers. net = "error": fetch rejects. Otherwise ok is
   response.ok and body is the body: kind "invalid" (response.json() rejects),
   or the parsed JSON value: "null", "number", "string", "object", or "array"
   with its items. An item is a JSON value too: kind "null", "number", "string"
   or "object" with the four properties read by the code (Undefined: absent). *)
Item(kind, id, name, courseName, title) ==
    [kind |-> kind, id |-> id, name |-> name, courseName |-> courseName,
     title |-> title]

PrimitiveItem(kind) == Item(kind, Undefined, Undefined, Undefined, Undefined)

Body(kind, items) == [kind |-> kind, items |-> items]

Response(net, ok, body) == [net |-> net, ok |-> ok, body |-> body]

\* course.id, course.name, ... : a property read on a primitive is undefined
Prop(item, key) ==
    IF item.kind = "object"
    THEN CASE key = "id" -> item.id
           [] key = "name" -> item.name
           [] key = "courseName" -> item.courseName
           [] key = "title" -> item.title
    ELSE Undefined

\* the callback of courses.map
NormalizeCourse(course) ==
    [id |-> Prop(course, "id"),
     name |-> Or(Or(Prop(course, "name"), Prop(course, "courseName")),
                 Prop(course, "title"))]

\* what makes the try block of fetchCourses throw: fetch rejects, !response.ok,
\* response.json() rejects, courses.map is not a function (courses is null or
\* no array), or a property is read on a null item
FetchThrows(r) ==
    \/ r.net = "error"
    \/ ~r.ok
    \/ r.body.kind # "array"
    \/ \E i \in DOMAIN r.body.items : r.body.items[i].kind = "null"

\* a mutant of fetchCourses: courseName is preferred to name
fetchCoursesWrongOrder(r) ==
    IF FetchThrows(r)
    THEN [threw |-> FALSE, value |-> FallbackCourses]
    ELSE [threw |-> FALSE,
          value |-> [i \in DOMAIN r.body.items |->
                        [id |-> Prop(r.body.items[i], "id"),
                         name |-> Or(Or(Prop(r.body.items[i], "courseName"),
                                        Prop(r.body.items[i], "name")),
                                     Prop(r.body.items[i], "title"))]]]

\* StudentAPI.fetchCourses: threw says whether the promise rejects
fetchCourses(r) ==
    IF FetchThrows(r)
    THEN [threw |-> FALSE, value |-> FallbackCourses]
    ELSE [threw |-> FALSE,
          value |-> [i \in DOMAIN r.body.items |-> NormalizeCourse(r.body.items[i])]]

-----------------------------------------------------------------------------
(* The inputs of the model *)

sAnn == <<"A", "n", "n">>
sAnnMail == <<"a", "@", "x", ".", "c", "o">>
sBadMail == <<"b", "a", "d", "-", "e", "m", "a", "i", "l">>

\* what the user types into the name, e-mail and image inputs (a user who
\* leaves the optional image URL empty)
Typed == [names |-> {sAnn}, emails |-> {sBadMail, sAnnMail}, images |-> {}]

\* the same, of a user who types valid values only
TypedValid == [names |-> {sAnn}, emails |-> {sAnnMail}, images |-> {}]

\* what the user types into the search box
SearchTerms == {<<>>, <<"a", "N">>}

\* what the endpoint answers in the application's behaviours
AppResponses ==
    { Response("ok", TRUE,
               Body("array", << Item("object", Num(1), Undefined, Str(sCSS), Undefined) >>)) }

-----------------------------------------------------------------------------
(* The dashboard *)

NoErrors == [f \in {} |-> ""]

\* the form when none is mounted
NoForm == [name |-> <<>>, email |-> <<>>, course |-> <<>>, profileImage |-> <<>>]

\* useState initial value of formData: student?.field || ''
InitialFormData(student) ==
    IF student = <<>> THEN NoForm
    ELSE [name |-> student[1].name, email |-> student[1].email,
          course |-> student[1].course, profileImage |-> student[1].profileImage]

\* { ...studentData, id }
WithId(studentData, id) ==
    [id |-> id, name |-> studentData.name, email |-> studentData.email,
     course |-> studentData.course, profileImage |-> studentData.profileImage]

\* a mutant of Matches: only the name is searched
MatchesNameOnly(student, term) ==
    includes(toLowerCase(student.name), toLowerCase(term))

\* the predicate of students.filter in filteredStudents
Matches(student, term) ==
    \/ includes(toLowerCase(student.name), toLowerCase(term))
    \/ includes(toLowerCase(student.email), toLowerCase(term))
    \/ includes(toLowerCase(student.course), toLowerCase(term))

\* a mutant of derive: the comparison is case-sensitive
deriveCaseSensitive(list, term) ==
    IF term = <<>> THEN list
    ELSE SelectSeq(list, LAMBDA student :
                \/ includes(student.name, term)
                \/ includes(student.email, term)
                \/ includes(student.course, term))

\* the useMemo of filteredStudents, as a function of its dependencies
derive(list, term) ==
    IF term = <<>> THEN list
    ELSE SelectSeq(list, LAMBDA student : Matches(student, term))

filteredStudents == derive(students, searchTerm)

(* The dashboard is rendered, not the "Loading dashboard..." screen. While the
   form is shown its modal overlay (fixed inset-0, z-50) covers the dashboard:
   the header button, the cards and the search box are used only with the form
   closed. *)
Rendered == fetchState # "idle" /\ ~(loading /\ courses = <<>>)

\* value of an <option>: the name when it is a string, '' when there is none
OptionValue(name) == IF name.t = "string" THEN name.s ELSE <<>>

\* the values the course <select> offers
CourseOptions == {<<>>} \cup {OptionValue(courses[i].name) : i \in DOMAIN courses}

\* a StudentForm is mounted (showForm turns true): its useState initial values.
\* Only an instance that submitted has continuations that name it, so the
\* number of submits so far tells the instances apart.
MountForm(student) ==
    /\ formData' = InitialFormData(student)
    /\ errors' = NoErrors
    /\ isSubmitting' = FALSE
    /\ formId' = nsubmits + 1

\* the StudentForm is unmounted (showForm turns false)
UnmountForm ==
    /\ formData' = NoForm
    /\ errors' = NoErrors
    /\ isSubmitting' = FALSE
    /\ formId' = 0

\* the page before the mount effect ran; the endpoint will answer one of responses
InitWith(responses) ==
    /\ students = <<>>
    /\ courses = <<>>
    /\ loading = FALSE
    /\ error = <<>>
    /\ showForm = FALSE
    /\ editingStudent = <<>>
    /\ searchTerm = <<>>
    /\ formData = NoForm
    /\ errors = NoErrors
    /\ isSubmitting = FALSE
    /\ formId = 0
    /\ fetchState = "idle"
    /\ response \in responses
    /\ timers = <<>>
    /\ now = 0
    /\ nsubmits = 0
    /\ cancelled = {}

Init == InitWith(AppResponses)

\* the useEffect of the dashboard, up to the await
MountEffect ==
    /\ fetchState = "idle"
    /\ loading' = TRUE
    /\ error' = <<>>
    /\ fetchState' = "pending"
    /\ UNCHANGED <<students, courses, showForm, editingStudent, searchTerm, formData,
                   errors, isSubmitting, formId, response, timers, now, nsubmits,
                   cancelled>>

\* the useEffect of the dashboard, from the await on: try / catch / finally
FetchCoursesDone ==
    /\ fetchState = "pending"
    /\ LET coursesData == fetchCourses(response)
       IN  IF coursesData.threw
           THEN /\ error' = <<"Failed to load courses">>
                /\ courses' = FallbackCourses
           ELSE /\ courses' = coursesData.value
                /\ error' = error
    /\ loading' = FALSE
    /\ fetchState' = "done"
    /\ UNCHANGED <<students, showForm, editingStudent, searchTerm, formData, errors,
                   isSubmitting, formId, response, timers, now, nsubmits, cancelled>>

\* onChange of the search box: terms is what the user types into it
SearchFor(terms) ==
    /\ Rendered
    /\ ~showForm
    /\ \E term \in terms : searchTerm' = term
    /\ UNCHANGED <<students, courses, loading, error, showForm, editingStudent,
                   formData, errors, isSubmitting, formId, fetchState, response,
                   timers, now, nsubmits, cancelled>>

SetSearchTerm == SearchFor(SearchTerms)

handleAddStudent ==
    /\ Rendered
    /\ ~showForm
    /\ editingStudent' = <<>>
    /\ showForm' = TRUE
    /\ MountForm(<<>>)
    /\ UNCHANGED <<students, courses, loading, error, searchTerm, fetchState,
                   response, timers, now, nsubmits, cancelled>>

\* onEdit of a StudentCard: the cards are those of filteredStudents
handleEditStudent ==
    /\ Rendered
    /\ ~showForm
    /\ \E i \in DOMAIN filteredStudents :
          /\ editingStudent' = <<filteredStudents[i]>>
          /\ MountForm(<<filteredStudents[i]>>)
    /\ showForm' = TRUE
    /\ UNCHANGED <<students, courses, loading, error, searchTerm, fetchState,
                   response, timers, now, nsubmits, cancelled>>

\* a mutant of InputValues: the course is a text input, not a select
InputValuesFreeCourse(typed, field) ==
    CASE field = "name" -> typed.names
      [] field = "email" -> typed.emails
      [] field = "course" -> CourseOptions \cup typed.names
      [] field = "profileImage" -> typed.images

\* the values an input of the form can take: typed is what the user types
InputValues(typed, field) ==
    CASE field = "name" -> typed.names
      [] field = "email" -> typed.emails
      [] field = "course" -> CourseOptions
      [] field = "profileImage" -> typed.images

handleInputChange(typed) ==
    /\ Rendered
    /\ showForm
    /\ \E field \in {"name", "email", "course", "profileImage"} :
         \E value \in InputValues(typed, field) :
            /\ field = "course" => ~loading
            /\ formData' = [formData EXCEPT ![field] = value]
            /\ IF field \in DOMAIN errors /\ errors[field] # ""
               THEN errors' = [errors EXCEPT ![field] = ""]
               ELSE errors' = errors
    /\ UNCHANGED <<students, courses, loading, error, showForm, editingStudent,
                   searchTerm, isSubmitting, formId, fetchState, response, timers,
                   now, nsubmits, cancelled>>

SubmitDelay == 800
SaveDelay == 500

\* a mutant of handleSubmit: the validation errors do not stop the submit
handleSubmitNoAbort(max) ==
    /\ Rendered
    /\ showForm
    /\ ~isSubmitting
    /\ nsubmits < max
    /\ errors' = validateStudent(formData)
    /\ isSubmitting' = TRUE
    /\ timers' = Append(timers,
                    [kind |-> "submit", due |-> now + SubmitDelay,
                     data |-> formData, editing |-> editingStudent,
                     form |-> formId])
    /\ nsubmits' = nsubmits + 1
    /\ UNCHANGED <<students, courses, loading, error, showForm, editingStudent,
                   searchTerm, formData, formId, fetchState, response, now, cancelled>>

\* handleSubmit of the StudentForm, up to the await; at most max submits pass
\* validation in a behaviour
handleSubmit(max) ==
    /\ Rendered
    /\ showForm
    /\ ~isSubmitting
    /\ LET validationErrors == validateStudent(formData)
       IN  IF DOMAIN validationErrors # {}
           THEN /\ errors' = validationErrors
                /\ UNCHANGED <<isSubmitting, timers, nsubmits>>
           ELSE /\ nsubmits < max
                /\ isSubmitting' = TRUE
                /\ timers' = Append(timers,
                                [kind |-> "submit", due |-> now + SubmitDelay,
                                 data |-> formData, editing |-> editingStudent,
                                 form |-> formId])
                /\ nsubmits' = nsubmits + 1
                /\ errors' = errors
    /\ UNCHANGED <<students, courses, loading, error, showForm, editingStudent,
                   searchTerm, formData, formId, fetchState, response, now, cancelled>>

\* a continuation of the form instance is pending
InFlight(pending, form) == \E i \in DOMAIN pending : pending[i].form = form

handleCancelForm ==
    /\ Rendered
    /\ showForm
    /\ ~isSubmitting
    /\ showForm' = FALSE
    /\ editingStudent' = <<>>
    /\ cancelled' = IF InFlight(timers, formId) THEN cancelled \cup {formId}
                    ELSE cancelled
    /\ UnmountForm
    /\ UNCHANGED <<students, courses, loading, error, searchTerm, fetchState,
                   response, timers, now, nsubmits>>

(* The timers. The event loop runs a timer no earlier than it is due, and the
   timers in the order of their due times (creation order among equals). *)
IsNextTimer(i) ==
    /\ i \in DOMAIN timers
    /\ \A j \in DOMAIN timers :
          \/ timers[i].due < timers[j].due
          \/ (timers[i].due = timers[j].due /\ i <= j)

NextTimer == CHOOSE i \in DOMAIN timers : IsNextTimer(i)

RemoveAt(seq, i) == SubSeq(seq, 1, i - 1) \o SubSeq(seq, i + 1, Len(seq))

\* time passes, up to the due time of a pending timer
Tick ==
    /\ \E i \in DOMAIN timers :
          /\ timers[i].due > now
          /\ now' = timers[i].due
    /\ UNCHANGED <<students, courses, loading, error, showForm, editingStudent,
                   searchTerm, formData, errors, isSubmitting, formId, fetchState,
                   response, timers, nsubmits, cancelled>>

\* handleSubmit from the await on: onSave(formData), which runs handleSaveStudent
\* up to the await in addStudent / updateStudent, then the finally block
SubmitTimerFired ==
    /\ timers # <<>>
    /\ LET t == timers[NextTimer]
       IN  /\ t.kind = "submit"
           /\ t.due <= now
           /\ timers' = Append(RemoveAt(timers, NextTimer),
                               [kind |-> "save", due |-> now + SaveDelay,
                                data |-> t.data, editing |-> t.editing,
                                form |-> t.form])
           /\ isSubmitting' = IF formId = t.form THEN FALSE ELSE isSubmitting
    /\ UNCHANGED <<students, courses, loading, error, showForm, editingStudent,
                   searchTerm, formData, errors, formId, fetchState, response, now,
                   nsubmits, cancelled>>

\* StudentAPI.addStudent after its delay
addStudent(student) == WithId(student, now)

\* StudentAPI.updateStudent after its delay
updateStudent(updatedStudent) == updatedStudent

\* prev => prev.map(s => s.id === editingStudent.id ? updatedStudent : s)
ReplaceById(prev, id, updatedStudent) ==
    [i \in DOMAIN prev |-> IF prev[i].id = id THEN updatedStudent ELSE prev[i]]

\* a mutant of AppendStudent: the new student is put first
PrependStudent(prev, newStudent) == <<newStudent>> \o prev

\* prev => [...prev, newStudent]
AppendStudent(prev, newStudent) == Append(prev, newStudent)

\* handleSaveStudent from the await on
SaveTimerFired ==
    /\ timers # <<>>
    /\ LET t == timers[NextTimer]
       IN  /\ t.kind = "save"
           /\ t.due <= now
           /\ timers' = RemoveAt(timers, NextTimer)
           /\ IF t.editing # <<>>
              THEN students' = ReplaceById(students, t.editing[1].id,
                                   updateStudent(WithId(t.data, t.editing[1].id)))
              ELSE students' = AppendStudent(students, addStudent(t.data))
    /\ showForm' = FALSE
    /\ editingStudent' = <<>>
    /\ UnmountForm
    /\ cancelled' = {f \in cancelled : InFlight(timers', f)}
    /\ UNCHANGED <<courses, loading, error, searchTerm, fetchState, response, now,
                   nsubmits>>

Next ==
    \/ MountEffect
    \/ FetchCoursesDone
    \/ SetSearchTerm
    \/ handleAddStudent
    \/ handleEditStudent
    \/ handleInputChange(Typed)
    \/ handleSubmit(MaxSubmits)
    \/ handleCancelForm
    \/ Tick
    \/ SubmitTimerFired
    \/ SaveTimerFired

Spec == Init /\ [][Next]_vars

\* the behaviours of a user who types valid values only and leaves the search
\* box alone: more saves fit in the same state space
TimedNext ==
    \/ MountEffect
    \/ FetchCoursesDone
    \/ handleAddStudent
    \/ handleEditStudent
    \/ handleInputChange(TypedValid)
    \/ handleSubmit(MaxTimedSubmits)
    \/ handleCancelForm
    \/ Tick
    \/ SubmitTimerFired
    \/ SaveTimerFired

TimedSpec == Init /\ [][TimedNext]_vars

\* the behaviours with the timers run fairly: the event loop runs a due timer,
\* and time passes
FairSpec ==
    /\ Spec
    /\ WF_vars(Tick)
    /\ WF_vars(SubmitTimerFired)
    /\ WF_vars(SaveTimerFired)

-----------------------------------------------------------------------------
(* The course fetch alone, over the answers of the endpoint *)

\* the objects of a fetched array
ObjectItems ==
    { Item("object", id, name, courseName, title) :
        id \in {Num(1), Num(2)},
        name \in {Undefined, Str(<<>>), Str(sCSS)},
        courseName \in {Undefined, Str(<<>>), Str(sJS)},
        title \in {Undefined, Str(sGo)} }

FetchItems == ObjectItems \cup {PrimitiveItem("null"), PrimitiveItem("number")}

FetchArrays == UNION {[1 .. n -> FetchItems] : n \in 0 .. MaxItems}

FetchResponses ==
    { Response("error", FALSE, Body("invalid", <<>>)),
      Response("ok", FALSE, Body("object", <<>>)),
      Response("ok", TRUE, Body("invalid", <<>>)) }
    \cup { Response("ok", TRUE, Body(kind, <<>>)) :
              kind \in {"null", "number", "string", "object"} }
    \cup { Response("ok", TRUE, Body("array", items)) : items \in FetchArrays }

InitFetch == InitWith(FetchResponses)

FetchNext ==
    \/ MountEffect
    \/ FetchCoursesDone

FetchSpec == InitFetch /\ [][FetchNext]_vars

-----------------------------------------------------------------------------
(* validateStudent alone, over the candidates a user can type *)

sStudentMail == <<"s", "t", "u", "d", "e", "n", "t", "@", "e", "x", "a", "m", "p",
                  "l", "e", ".", "c", "o", "m">>
sNoAtSign == <<"n", "o", "a", "t", "s", "i", "g", "n", ".", "c", "o", "m">>

NameCandidates ==
    {<<>>, <<" ">>, <<"\t", " ">>, <<"a">>, <<" ", "a", " ">>, <<"a", " ", "b">>}

EmailCandidates ==
    StringsUpTo({"a", "@", ".", " "}, MaxLen)
        \cup {sStudentMail, sNoAtSign, sBadMail, <<"a", "@", "b">>, <<"\t">>}

\* the form is open on a loaded dashboard and holds a candidate
InitValidate ==
    /\ students = <<>>
    /\ courses = fetchCourses(CHOOSE r \in AppResponses : TRUE).value
    /\ loading = FALSE
    /\ error = <<>>
    /\ showForm = TRUE
    /\ editingStudent = <<>>
    /\ searchTerm = <<>>
    /\ formData \in [name : NameCandidates, email : EmailCandidates,
                      course : CourseOptions, profileImage : {<<>>}]
    /\ errors = NoErrors
    /\ isSubmitting = FALSE
    /\ formId = 1
    /\ fetchState = "done"
    /\ response \in AppResponses
    /\ timers = <<>>
    /\ now = 0
    /\ nsubmits = 0
    /\ cancelled = {}

ValidateNext == handleSubmit(MaxSubmits)

ValidateSpec == InitValidate /\ [][ValidateNext]_vars

-----------------------------------------------------------------------------
(* The application over different course lists *)

\* what the endpoint can answer: two courses named by their title and their
\* courseName, a course without a name and a named one, or a server error
CourseResponses ==
    { Response("ok", TRUE,
               Body("array", << Item("object", Num(1), Undefined, Str(<<>>), Str(sGo)),
                                Item("object", Num(2), Undefined, Str(sJS), Undefined) >>)),
      Response("ok", TRUE,
               Body("array", << Item("object", Num(1), Undefined, Undefined, Undefined),
                                Item("object", Num(2), Str(sCSS), Undefined, Undefined) >>)),
      Response("ok", FALSE, Body("invalid", <<>>)) }

InitCourses == InitWith(CourseResponses)

CourseNext ==
    \/ MountEffect
    \/ FetchCoursesDone
    \/ handleAddStudent
    \/ handleEditStudent
    \/ handleInputChange(TypedValid)
    \/ handleSubmit(MaxSubmits)
    \/ handleCancelForm
    \/ Tick
    \/ SubmitTimerFired
    \/ SaveTimerFired

CourseSpec == InitCourses /\ [][CourseNext]_vars

-----------------------------------------------------------------------------
(* The search box alone, over rosters of different students *)

sBo == <<"B", "o">>
sBoMail == <<"b", "o", "@", "y", ".", "i", "o">>
sJoan == <<"j", "o", "A", "N">>
sJoanMail == <<"J", "@", "x", ".", "c", "o">>

\* the students a roster can hold once their saves have landed
SavedData ==
    { [name |-> sAnn, email |-> sAnnMail, course |-> sCSS, profileImage |-> <<>>],
      [name |-> sBo, email |-> sBoMail, course |-> sGo, profileImage |-> <<>>],
      [name |-> sJoan, email |-> sJoanMail, course |-> sJS, profileImage |-> <<>>] }

\* the rosters of up to MaxRoster students, their ids the clock readings of
\* saves that landed one after the other
Rosters ==
    { [i \in DOMAIN data |-> WithId(data[i], (SubmitDelay + SaveDelay) * i)] :
        data \in UNION {[1 .. n -> SavedData] : n \in 0 .. MaxRoster} }

DeriveTerms ==
    {<<>>, <<"a", "N">>, <<"a", "n", "n">>, <<"G", "O">>, <<"@", "x">>, <<"z">>,
     <<" ">>, <<"O", "@">>}

InitDerive ==
    /\ students \in Rosters
    /\ courses = fetchCourses(CHOOSE r \in AppResponses : TRUE).value
    /\ loading = FALSE
    /\ error = <<>>
    /\ showForm = FALSE
    /\ editingStudent = <<>>
    /\ searchTerm = <<>>
    /\ formData = NoForm
    /\ errors = NoErrors
    /\ isSubmitting = FALSE
    /\ formId = 0
    /\ fetchState = "done"
    /\ response = CHOOSE r \in AppResponses : TRUE
    /\ timers = <<>>
    /\ now = (SubmitDelay + SaveDelay) * Len(students)
    /\ nsubmits = 0
    /\ cancelled = {}

DeriveNext == SearchFor(DeriveTerms)

DeriveSpec == InitDerive /\ [][DeriveNext]_vars

-----------------------------------------------------------------------------
(* The claims *)

Ids(list) == [i \in DOMAIN list |-> list[i].id]

\* the continuation the event loop runs next
Running == timers[NextTimer]

(* C1: in every reachable state no two students of the roster share an id.
   The id of a new student is Date.now() read when the 500 ms timer of
   addStudent fires; two saves whose timers fire in the same millisecond get
   the same id. *)
UniqueIds ==
    \A i, j \in DOMAIN students : i # j => students[i].id # students[j].id

(* C2: a submit whose form data fails validateStudent aborts, in create and in
   update mode: the errors are stored in the form, no continuation (so no
   onSave) is created for it, and students is left as it was. *)
InvalidSubmitAborts ==
    [][ (handleSubmit(MaxSubmits) /\ DOMAIN validateStudent(formData) # {}) =>
            /\ errors' = validateStudent(formData)
            /\ DOMAIN errors' # {}
            /\ timers' = timers
            /\ students' = students
            /\ isSubmitting' = FALSE ]_vars

\* C2, its case: an edit of a saved student was submitted with a bad e-mail, the
\* error is shown, nothing is pending and the student kept its e-mail
InvalidUpdateRejected ==
    /\ showForm
    /\ editingStudent # <<>>
    /\ formData.email = sBadMail
    /\ "email" \in DOMAIN errors
    /\ errors["email"] = "Please enter a valid email address"
    /\ timers = <<>>
    /\ \E i \in DOMAIN students :
          /\ students[i].id = editingStudent[1].id
          /\ students[i].email = sAnnMail

(* C3: cancel discards the edit session: the form is closed, editingStudent is
   cleared, students and courses are left alone at the cancel step, and no
   later step adds or replaces a student on behalf of the cancelled session. *)
CancelDiscardsSession ==
    [][ /\ handleCancelForm =>
            /\ ~showForm'
            /\ editingStudent' = <<>>
            /\ students' = students
            /\ courses' = courses
        /\ SaveTimerFired => Running.form \notin cancelled ]_vars

(* C4: a valid save in update mode replaces exactly the student that has the id
   of the student the session was opened on: one student has that id, it is
   replaced by the form data under the same id, and length, order and every
   other student are unchanged. *)
UpdateReplacesExactlyOne ==
    [][ (SaveTimerFired /\ Running.editing # <<>>) =>
            LET id == Running.editing[1].id
                hit == {i \in DOMAIN students : students[i].id = id}
            IN  /\ Cardinality(hit) = 1
                /\ Len(students') = Len(students)
                /\ \A i \in DOMAIN students :
                      students'[i] = IF i \in hit THEN WithId(Running.data, id)
                                     ELSE students[i] ]_vars

(* C5: with the timers run fairly, every valid create-mode save leads to a
   state where students holds a new record (at a position that did not exist
   at the submit) with the submitted name, e-mail and course and an id assigned
   by the save (a clock reading taken after both delays, different from every
   id the roster held when the form was submitted), the form is closed,
   and the filtered list of every search term that is a case-insensitive
   substring of the submitted name contains that record. *)
SubmittedData ==
    {d \in [name : Typed.names, email : Typed.emails, course : {sCSS, sGo},
            profileImage : {<<>>}] : DOMAIN validateStudent(d) = {}}

ProbeTerms == {<<>>, <<"a", "N">>, <<"N", "N">>, <<"A", "n", "n">>, <<"x">>, sCSS}

IsSubstringIgnoringCase(term, text) ==
    \E k \in 0 .. (Len(text) - Len(term)) :
        \A i \in 1 .. Len(term) : LowerChar(text[k + i]) = LowerChar(term[i])

PendingCreate(d, n) ==
    /\ Len(students) = n
    /\ \E i \in DOMAIN timers :
          /\ timers[i].kind = "submit"
          /\ timers[i].editing = <<>>
          /\ timers[i].data = d

Landed(d, n) ==
    /\ ~showForm
    /\ \E k \in DOMAIN students :
          /\ k > n
          /\ students[k].name = d.name
          /\ students[k].email = d.email
          /\ students[k].course = d.course
          /\ students[k].id >= SubmitDelay + SaveDelay
          /\ students[k].id <= now
          /\ \A j \in 1 .. n : students[j].id # students[k].id
          /\ \A term \in ProbeTerms :
                IsSubstringIgnoringCase(term, d.name) =>
                    \E j \in DOMAIN derive(students, term) :
                        derive(students, term)[j] = students[k]

CreateSaveLands ==
    \A d \in SubmittedData : \A n \in 0 .. MaxSubmits :
        PendingCreate(d, n) ~> Landed(d, n)

\* C5, its case: a created student is in the roster, the form is closed and the
\* search for "aN" finds the student
CreatedAndFound ==
    /\ ~showForm
    /\ timers = <<>>
    /\ Len(students) = 1
    /\ students[1].name = sAnn
    /\ Len(derive(students, <<"a", "N">>)) = 1

(* C6: nothing is ever removed from the roster and its order is kept: in every
   step the ids before the step are a prefix of the ids after it, and only the
   completion of a save changes students at all (a create appends one student,
   an update keeps the ids as they are). *)
IsPrefix(short, long) ==
    /\ Len(short) <= Len(long)
    /\ \A i \in DOMAIN short : short[i] = long[i]

RosterOnlyGrows ==
    [][ /\ IsPrefix(Ids(students), Ids(students'))
        /\ students' # students => SaveTimerFired
        /\ (SaveTimerFired /\ Running.editing = <<>>) =>
              Len(students') = Len(students) + 1
        /\ (SaveTimerFired /\ Running.editing # <<>>) =>
              Ids(students') = Ids(students) ]_vars

\* C6, its case: two submits were saved, a create and then an update of the
\* created student
CreatedThenUpdated ==
    /\ nsubmits = 2
    /\ timers = <<>>
    /\ Len(students) = 1

\* the request failed: fetch rejected, the status is not OK, or the body is no JSON
RequestFailed(r) == r.net = "error" \/ ~r.ok \/ r.body.kind = "invalid"

\* the body is JSON but not an array of objects
NotAnArrayOfObjects(r) ==
    /\ ~RequestFailed(r)
    /\ \/ r.body.kind # "array"
       \/ \E i \in DOMAIN r.body.items : r.body.items[i].kind # "object"

(* C7: for every failure of the request (network error, non-OK status, a body
   that is not valid JSON or not an array of objects) fetchCourses returns the
   four-item fallback and propagates no error, so courses ends up holding the
   fallback. *)
FailureYieldsFallback ==
    (fetchState = "done" /\ (RequestFailed(response) \/ NotAnArrayOfObjects(response)))
        => (courses = FallbackCourses /\ ~fetchCourses(response).threw)

(* C8: once the startup fetch has failed and completed, the error message of
   the store is non-null (the banner is shown), loading is false and courses
   holds the fallback list. *)
FailureShowsBanner ==
    (fetchState = "done" /\ RequestFailed(response))
        => (error # <<>> /\ ~loading /\ courses = FallbackCourses)

(* C9: on a successful fetch, courses holds one {id, name} per returned item, in
   the same order, the id copied from the item and the name the first non-empty
   value among the item's name, courseName and title. *)
NonEmpty(v) == v.t = "string" /\ Len(v.s) > 0

NameLike(item) == <<item.name, item.courseName, item.title>>

FetchSucceeded(r) ==
    /\ ~RequestFailed(r)
    /\ r.body.kind = "array"
    /\ \A i \in DOMAIN r.body.items : r.body.items[i].kind = "object"

SuccessNormalizes ==
    (fetchState = "done" /\ FetchSucceeded(response)) =>
        /\ Len(courses) = Len(response.body.items)
        /\ \A i \in DOMAIN courses :
              LET item == response.body.items[i]
              IN  /\ courses[i].id = item.id
                  /\ \A k \in 1 .. 3 :
                        (NonEmpty(NameLike(item)[k])
                            /\ \A j \in 1 .. (k - 1) : ~NonEmpty(NameLike(item)[j]))
                        => courses[i].name = NameLike(item)[k]

\* C9, its case: two items were fetched, the first named by its courseName (its
\* name is empty), the second by its title (it has nothing else)
NormalizedTwo ==
    /\ fetchState = "done"
    /\ FetchSucceeded(response)
    /\ Len(courses) = 2
    /\ response.body.items[1].name = Str(<<>>)
    /\ response.body.items[1].title = Str(sGo)
    /\ courses[1] = [id |-> Num(2), name |-> Str(sJS)]
    /\ response.body.items[2].name = Undefined
    /\ response.body.items[2].courseName = Str(<<>>)
    /\ courses[2] = [id |-> Num(1), name |-> Str(sGo)]

(* C10: validateStudent applies its three rules independently and returns all
   the errors together: a name error iff the name is blank, an e-mail error iff
   the e-mail is blank or does not have the shape local@domain.tld, a course
   error iff the course is empty, and no error iff none applies. *)
Blank(text) == \A i \in DOMAIN text : text[i] \in Whitespace

NoSpace(text, from, to) == \A i \in from .. to : text[i] \notin Whitespace

NoSpaceNoAt(text, from, to) ==
    \A i \in from .. to : text[i] \notin Whitespace /\ text[i] # "@"

\* the shape as the claim words it: the last part is any non-whitespace text
ShapeAsClaimed(email) ==
    \E a \in DOMAIN email : \E d \in DOMAIN email :
        /\ 1 < a /\ a + 1 < d /\ d < Len(email)
        /\ email[a] = "@" /\ email[d] = "."
        /\ NoSpaceNoAt(email, 1, a - 1)
        /\ NoSpaceNoAt(email, a + 1, d - 1)
        /\ NoSpace(email, d + 1, Len(email))

\* the shape with a last part that holds no '@' either
ShapeNoAtInLastPart(email) ==
    \E a \in DOMAIN email : \E d \in DOMAIN email :
        /\ 1 < a /\ a + 1 < d /\ d < Len(email)
        /\ email[a] = "@" /\ email[d] = "."
        /\ NoSpaceNoAt(email, 1, a - 1)
        /\ NoSpaceNoAt(email, a + 1, d - 1)
        /\ NoSpaceNoAt(email, d + 1, Len(email))

RulesHold(shape(_)) ==
    LET result == validateStudent(formData)
    IN  /\ "name" \in DOMAIN result <=> Blank(formData.name)
        /\ "email" \in DOMAIN result <=>
              (Blank(formData.email) \/ ~shape(formData.email))
        /\ "course" \in DOMAIN result <=> formData.course = <<>>
        /\ result = NoErrors <=>
              /\ ~Blank(formData.name)
              /\ ~Blank(formData.email) /\ shape(formData.email)
              /\ formData.course # <<>>
        /\ (nsubmits = 0 /\ errors # NoErrors) => errors = result

\* C10 as worded: the last part of the e-mail is any non-whitespace text
ValidateRulesAsClaimed == RulesHold(ShapeAsClaimed)

\* C10 amended: the last part of the e-mail holds no whitespace and no '@'
ValidateRules == RulesHold(ShapeNoAtInLastPart)

\* C10, its case: a submit reported the three errors together
AllThreeErrors ==
    /\ DOMAIN errors = Fields
    /\ errors["name"] = "Name is required"
    /\ errors["email"] = "Please enter a valid email address"
    /\ errors["course"] = "Please select a course"
    /\ formData.email = <<"a", "@", "a">>

(* C11: filteredStudents is students itself when searchTerm is empty, and
   otherwise the students whose name, e-mail or course contains searchTerm at
   some position, letter case ignored, in the order they have in students and
   each as often as it is in students; typing a search term leaves students as
   it is. *)
Contains(student, term) ==
    \/ IsSubstringIgnoringCase(term, student.name)
    \/ IsSubstringIgnoringCase(term, student.email)
    \/ IsSubstringIgnoringCase(term, student.course)

\* the positions in students of the students that contain the search term
Kept == {i \in DOMAIN students : Contains(students[i], searchTerm)}

\* the position in students of the k-th student kept
KeptAt(k) == CHOOSE i \in Kept : Cardinality({j \in Kept : j <= i}) = k

FilterIsSubsequence ==
    /\ searchTerm = <<>> => filteredStudents = students
    /\ searchTerm # <<>> =>
          /\ Len(filteredStudents) = Cardinality(Kept)
          /\ \A k \in 1 .. Cardinality(Kept) : filteredStudents[k] = students[KeptAt(k)]

FilteredIsDerived ==
    /\ []FilterIsSubsequence
    /\ [][students' = students]_vars

\* C11, its case: a search for "aN" in a roster of Ann, Bo and joAN keeps the
\* first and the third student, in this order, and drops the second
SearchKeepsTwoOfThree ==
    /\ searchTerm = <<"a", "N">>
    /\ Len(students) = 3
    /\ students[1].name = sAnn /\ students[2].name = sBo /\ students[3].name = sJoan
    /\ filteredStudents = <<students[1], students[3]>>

(* C12: the course of every student of the roster is the name of an entry of
   the course list as it was when the student's save was validated: a submit is
   accepted only with the name of an entry of the list as its course, the list
   does not change from the first accepted submit on, and the roster only ever
   holds such courses. *)
CourseNames ==
    {courses[i].name.s : i \in {j \in DOMAIN courses : courses[j].name.t = "string"}}

SubmitAccepted == handleSubmit(MaxSubmits) /\ nsubmits' = nsubmits + 1

SavedCourseWasListed ==
    /\ [](\A i \in DOMAIN students : students[i].course \in CourseNames)
    /\ [][SubmitAccepted =>
            /\ formData.course \in CourseNames
            /\ timers'[Len(timers')].data.course = formData.course]_vars
    /\ [][SaveTimerFired =>
            \A i \in DOMAIN students' :
                \/ students'[i].course = Running.data.course
                \/ i \in DOMAIN students /\ students'[i].course = students[i].course]_vars
    /\ [][nsubmits > 0 => courses' = courses]_vars

\* C12, its case: of a list of two courses, one named by its title and one by
\* its courseName, each was saved with a student
TwoCoursesSaved ==
    /\ response.ok
    /\ Len(courses) = 2
    /\ Len(students) = 2
    /\ students[1].course = sGo
    /\ students[2].course = sJS
    /\ timers = <<>>

(* C13: one session of the form changes the roster at most once: a submit is
   accepted only while no earlier submit of the same form is still on its way
   to the roster, and when a save lands no other save of the same form is
   pending behind it. *)
OneMutationPerSession ==
    [][ /\ SubmitAccepted => ~InFlight(timers, formId)
        /\ SaveTimerFired => ~InFlight(timers', Running.form) ]_vars

====
